---------------------------- MODULE Spec2Model ----------------------------
(***************************************************************************)
(* Model of the identifier-synthesis core of qwik-optimizer:                *)
(*   src/src/segment.rs        Segment::new, Segment::is_qwik, Display      *)
(*   src/src/component/id.rs   Id::sanitize, Id::calculate_hash, Id::new    *)
(*   src/src/component/shared.rs  Target                                    *)
(* A Rust String is modelled as a sequence of one-character strings; all    *)
(* characters of the model are ASCII, so a character is one byte.           *)
(***************************************************************************)
EXTENDS Integers, Sequences, FiniteSets

(***************************************************************************)
(* Characters and bytes.                                                    *)
(***************************************************************************)

\* The printable ASCII characters in code order, starting at code 32.  The double
\* quote, the backslash and the backtick are held by name: no string of the model contains them.
AsciiPrintable ==
  << " ", "!", "QUOTE", "#", "$", "%", "&", "'", "(", ")", "*", "+", ",", "-", ".", "/",
     "0", "1", "2", "3", "4", "5", "6", "7", "8", "9", ":", ";", "<", "=", ">", "?",
     "@", "A", "B", "C", "D", "E", "F", "G", "H", "I", "J", "K", "L", "M", "N", "O",
     "P", "Q", "R", "S", "T", "U", "V", "W", "X", "Y", "Z", "[", "BACKSLASH", "]", "^", "_",
     "BACKTICK", "a", "b", "c", "d", "e", "f", "g", "h", "i", "j", "k", "l", "m", "n", "o",
     "p", "q", "r", "s", "t", "u", "v", "w", "x", "y", "z", "{", "|", "}", "~" >>

\* The byte of an ASCII character (str::as_bytes, one character at a time).
Ord(c) == 31 + (CHOOSE i \in 1..Len(AsciiPrintable) : AsciiPrintable[i] = c)

\* str::as_bytes: the UTF-8 bytes of an ASCII string.
as_bytes(s) == [i \in 1..Len(s) |-> Ord(s[i])]

\* The characters '0'..='9', 'A'..='Z' and 'a'..='z'.
AsciiDigits == { AsciiPrintable[i] : i \in 17..26 }
AsciiUppercase == { AsciiPrintable[i] : i \in 34..59 }
AsciiLowercase == { AsciiPrintable[i] : i \in 66..91 }

\* char::is_ascii_digit
is_ascii_digit(c) == c \in AsciiDigits

\* char::is_ascii_alphanumeric
is_ascii_alphanumeric(c) ==
  c \in AsciiDigits \/ c \in AsciiUppercase \/ c \in AsciiLowercase

(***************************************************************************)
(* Evaluation order.  Rust evaluates `let x = e;` once and then uses the    *)
(* value; Value({ body : x \in { e } }) does the same: e is evaluated once, *)
(* x is bound to its value and body is evaluated with it.                   *)
(***************************************************************************)

\* The element of a one-element set.
Value(S) == CHOOSE v \in S : TRUE

(***************************************************************************)
(* 64-bit words, as four 16-bit limbs, least significant first.             *)
(***************************************************************************)

RECURSIVE XorBits(_, _, _)
\* Bitwise exclusive or of the low n bits of a and b.
XorBits(a, b, n) ==
  IF n = 0 THEN 0
  ELSE ((a + b) % 2) + 2 * XorBits(a \div 2, b \div 2, n - 1)

RECURSIVE XorRow(_, _)
\* The exclusive or of the 4-bit number a with 0, 1, ..., n - 1, as a sequence.
XorRow(a, n) == IF n = 0 THEN << >> ELSE Append(XorRow(a, n - 1), XorBits(a, n - 1, 4))

RECURSIVE XorRows(_)
\* The rows of the exclusive-or table of the 4-bit numbers 0, 1, ..., n - 1.
XorRows(n) == IF n = 0 THEN << >> ELSE Append(XorRows(n - 1), XorRow(n - 1, 16))

\* The exclusive-or table of 4-bit numbers: XorTable[a + 1][b + 1] is a ^ b.
XorTable == XorRows(16)

\* u16 ^ u16, four bits at a time.
Xor16(a, b) ==
    XorTable[(a % 16) + 1][(b % 16) + 1]
  + 16 * XorTable[((a \div 16) % 16) + 1][((b \div 16) % 16) + 1]
  + 256 * XorTable[((a \div 256) % 16) + 1][((b \div 256) % 16) + 1]
  + 4096 * XorTable[(a \div 4096) + 1][(b \div 4096) + 1]

\* u64 ^ u64
Xor64(x0, y0) ==
  Value({ << Xor16(x[1], y[1]), Xor16(x[2], y[2]), Xor16(x[3], y[3]), Xor16(x[4], y[4]) >> :
          x \in { x0 }, y \in { y0 } })

\* u64::wrapping_add
Add64(x0, y0) ==
  Value({ Value({ Value({ << s1 % 65536, s2 % 65536, s3 % 65536,
                             (x[4] + y[4] + (s3 \div 65536)) % 65536 >> :
                          s3 \in { x[3] + y[3] + (s2 \div 65536) } }) :
                  s2 \in { x[2] + y[2] + (s1 \div 65536) } }) :
          x \in { x0 }, y \in { y0 }, s1 \in { x0[1] + y0[1] } })

\* u64::rotate_left
Rotl64(x0, n) ==
  LET q == n \div 16
      r == n % 16
  IN  Value({ << ((x[((0 - q) % 4) + 1] % (2 ^ (16 - r))) * (2 ^ r))
                   + (x[((3 - q) % 4) + 1] \div (2 ^ (16 - r))),
                 ((x[((1 - q) % 4) + 1] % (2 ^ (16 - r))) * (2 ^ r))
                   + (x[((0 - q) % 4) + 1] \div (2 ^ (16 - r))),
                 ((x[((2 - q) % 4) + 1] % (2 ^ (16 - r))) * (2 ^ r))
                   + (x[((1 - q) % 4) + 1] \div (2 ^ (16 - r))),
                 ((x[((3 - q) % 4) + 1] % (2 ^ (16 - r))) * (2 ^ r))
                   + (x[((2 - q) % 4) + 1] \div (2 ^ (16 - r))) >> :
              x \in { x0 } })

\* u64::from_le_bytes on eight bytes.
U64FromLeBytes(b0) ==
  Value({ << b[1] + 256 * b[2], b[3] + 256 * b[4],
             b[5] + 256 * b[6], b[7] + 256 * b[8] >> : b \in { b0 } })

\* u64::to_le_bytes
to_le_bytes(x0) ==
  Value({ << x[1] % 256, x[1] \div 256, x[2] % 256, x[2] \div 256,
             x[3] % 256, x[3] \div 256, x[4] % 256, x[4] \div 256 >> : x \in { x0 } })

(***************************************************************************)
(* std::hash::DefaultHasher: SipHash-1-3 with the key (0, 0).  The hasher   *)
(* is modelled by the bytes written to it so far; Hasher::write appends,    *)
(* and Hasher::finish compresses the whole stream.                          *)
(***************************************************************************)

\* The SipHash initial state with k0 = k1 = 0.
SipInit ==
  [ v0 |-> << 25973, 28787, 28005, 29551 >>,   \* 0x736f6d6570736575
    v1 |-> << 28525, 28260, 29281, 25711 >>,   \* 0x646f72616e646f6d
    v2 |-> << 29281, 28261, 26469, 27769 >>,   \* 0x6c7967656e657261
    v3 |-> << 25971, 31092, 25698, 29797 >> ]  \* 0x7465646279746573

\* Assignment k of the ten assignments of one SipRound.
SipStep(s, k) ==
  CASE k = 1  -> [s EXCEPT !.v0 = Add64(s.v0, s.v1)]
    [] k = 2  -> [s EXCEPT !.v1 = Xor64(Rotl64(s.v1, 13), s.v0)]
    [] k = 3  -> [s EXCEPT !.v0 = Rotl64(s.v0, 32)]
    [] k = 4  -> [s EXCEPT !.v2 = Add64(s.v2, s.v3)]
    [] k = 5  -> [s EXCEPT !.v3 = Xor64(Rotl64(s.v3, 16), s.v2)]
    [] k = 6  -> [s EXCEPT !.v0 = Add64(s.v0, s.v3)]
    [] k = 7  -> [s EXCEPT !.v3 = Xor64(Rotl64(s.v3, 21), s.v0)]
    [] k = 8  -> [s EXCEPT !.v2 = Add64(s.v2, s.v1)]
    [] k = 9  -> [s EXCEPT !.v1 = Xor64(Rotl64(s.v1, 17), s.v2)]
    [] k = 10 -> [s EXCEPT !.v2 = Rotl64(s.v2, 32)]

RECURSIVE SipSteps(_, _, _)
\* The assignments k, k + 1, ..., n of consecutive SipRounds, in order.
SipSteps(s0, k, n) ==
  IF k > n THEN s0
  ELSE Value({ SipSteps(SipStep(s, ((k - 1) % 10) + 1), k + 1, n) : s \in { s0 } })

\* n SipRounds.
SipRounds(s, n) == SipSteps(s, 1, 10 * n)

\* Compression of one 64-bit message word: one c-round.
SipCompress(s0, m0) ==
  Value({ Value({ [t EXCEPT !.v0 = Xor64(t.v0, m)] :
                  t \in { SipRounds([s EXCEPT !.v3 = Xor64(s.v3, m)], 1) } }) :
          s \in { s0 }, m \in { m0 } })

RECURSIVE SipBlocks(_, _, _)
\* Compression of the full 8-byte blocks of bytes, from block k on.
SipBlocks(s0, bytes, k) ==
  IF 8 * k > Len(bytes) THEN s0
  ELSE Value({ SipBlocks(SipCompress(s, U64FromLeBytes(SubSeq(bytes, 8 * k - 7, 8 * k))),
                         bytes, k + 1) : s \in { s0 } })

\* The last word: the tail bytes, zero padding, and the length in the top byte.
SipTail(bytes) ==
  LET n == Len(bytes)
      t == n % 8
      byte(i) == IF i <= t THEN bytes[n - t + i] ELSE 0
  IN  U64FromLeBytes(<< byte(1), byte(2), byte(3), byte(4),
                        byte(5), byte(6), byte(7), n % 256 >>)

\* DefaultHasher::new: nothing written yet.
DefaultHasherNew == << >>

\* Hasher::write
HasherWrite(hasher, bytes) == hasher \o bytes

\* Hasher::finish: the tail word, v2 ^= 0xff, three d-rounds, v0 ^ v1 ^ v2 ^ v3.
HasherFinish(hasher) ==
  Value({ Value({ Xor64(Xor64(s.v0, s.v1), Xor64(s.v2, s.v3)) :
                  s \in { SipRounds([t EXCEPT !.v2 = Xor64(t.v2, << 255, 0, 0, 0 >>)], 3) } }) :
          t \in { SipCompress(SipBlocks(SipInit, hasher, 1), SipTail(hasher)) } })

(***************************************************************************)
(* base64 URL_SAFE_NO_PAD                                                   *)
(***************************************************************************)

\* The URL-safe base64 alphabet.
UrlSafeAlphabet ==
  << "A", "B", "C", "D", "E", "F", "G", "H", "I", "J", "K", "L", "M", "N", "O", "P",
     "Q", "R", "S", "T", "U", "V", "W", "X", "Y", "Z", "a", "b", "c", "d", "e", "f",
     "g", "h", "i", "j", "k", "l", "m", "n", "o", "p", "q", "r", "s", "t", "u", "v",
     "w", "x", "y", "z", "0", "1", "2", "3", "4", "5", "6", "7", "8", "9", "-", "_" >>

\* The characters that encode the one, two or three bytes of b from index i on.
Base64Chunk(b, i) ==
  LET ch(v) == UrlSafeAlphabet[v + 1]
  IN  IF i = Len(b) THEN << ch(b[i] \div 4), ch((b[i] % 4) * 16) >>
      ELSE IF i + 1 = Len(b) THEN << ch(b[i] \div 4),
                                     ch((b[i] % 4) * 16 + (b[i + 1] \div 16)),
                                     ch((b[i + 1] % 16) * 4) >>
      ELSE << ch(b[i] \div 4),
              ch((b[i] % 4) * 16 + (b[i + 1] \div 16)),
              ch((b[i + 1] % 16) * 4 + (b[i + 2] \div 64)),
              ch(b[i + 2] % 64) >>

RECURSIVE Base64From(_, _)
\* The encoding of the bytes of b from index i on.
Base64From(b, i) ==
  IF i > Len(b) THEN << >> ELSE Base64Chunk(b, i) \o Base64From(b, i + 3)

\* Engine::encode without padding.
Base64Encode(b0) == Value({ Base64From(b, 1) : b \in { b0 } })

\* str::replace of the characters - and _ by 0
ReplaceDashUnderscore(s0) ==
  Value({ [i \in 1..Len(s) |-> IF s[i] \in { "-", "_" } THEN "0" ELSE s[i]] :
          s \in { s0 } })

(***************************************************************************)
(* Option, strings                                                          *)
(***************************************************************************)

\* Option::None
None == << "None" >>

\* Option::Some
Some(v) == << "Some", v >>

\* str::strip_prefix
strip_prefix(s, prefix) ==
  IF Len(s) >= Len(prefix) /\ SubSeq(s, 1, Len(prefix)) = prefix
  THEN Some(SubSeq(s, Len(prefix) + 1, Len(s)))
  ELSE None

\* str::strip_suffix
strip_suffix(s, suffix) ==
  IF Len(s) >= Len(suffix) /\ SubSeq(s, Len(s) - Len(suffix) + 1, Len(s)) = suffix
  THEN Some(SubSeq(s, 1, Len(s) - Len(suffix)))
  ELSE None

\* Option::unwrap_or
unwrap_or(opt, default) == IF opt = None THEN default ELSE opt[2]

(***************************************************************************)
(* segment.rs                                                               *)
(***************************************************************************)

\* enum Segment
Named(name) == << "Named", name >>
AnonymousCaptured == << "AnonymousCaptured" >>
NamedCaptured(name) == << "NamedCaptured", name >>

RECURSIVE TrimMarkers(_)
\* str::trim_end_matches of the capture marker.
TrimMarkers(s) ==
  IF s # << >> /\ s[Len(s)] = "$" THEN TrimMarkers(SubSeq(s, 1, Len(s) - 1)) ELSE s

\* Segment::new, had it removed every trailing capture marker instead of one.
SegmentNewTrimAll(input) ==
  IF input = << "$" >> THEN AnonymousCaptured
  ELSE IF strip_suffix(input, << "$" >>) # None THEN NamedCaptured(TrimMarkers(input))
  ELSE Named(input)

\* Segment::new
SegmentNew(input) ==
  IF input = << "$" >> THEN AnonymousCaptured
  ELSE LET stripped == strip_suffix(input, << "$" >>)
       IN  IF stripped # None THEN NamedCaptured(stripped[2])
           ELSE Named(input)

\* Segment::is_qwik
is_qwik(self) ==
  CASE self[1] = "Named" -> FALSE
    [] self[1] = "AnonymousCaptured" -> TRUE
    [] self[1] = "NamedCaptured" -> TRUE

\* impl Display for Segment
SegmentFmt(self) ==
  CASE self[1] = "Named" -> self[2]
    [] self[1] = "AnonymousCaptured" -> << >>
    [] self[1] = "NamedCaptured" -> self[2]

\* Segment::into_binding_identifier: the name of the binding.
into_binding_identifier(self) ==
  CASE self[1] = "Named" -> self[2]
    [] self[1] = "AnonymousCaptured" -> << "$" >>
    [] self[1] = "NamedCaptured" -> self[2]

(***************************************************************************)
(* component/shared.rs                                                      *)
(***************************************************************************)

\* enum Target
Target == { "Prod", "Lib", "Dev", "Test" }

(***************************************************************************)
(* component/id.rs                                                          *)
(***************************************************************************)

\* The closure of Id::sanitize, had it never set the flag: every disallowed
\* character gives an underscore of its own.
SanitizeStepNoCollapse(st, c) ==
  IF is_ascii_alphanumeric(c) THEN << Append(st[1], c), FALSE >>
  ELSE << Append(st[1], "_"), FALSE >>

\* The closure of Id::sanitize, had its test of the flag been inverted: the first
\* disallowed character of a run is dropped and the later ones give underscores.
SanitizeStepInverted(st, c) ==
  IF is_ascii_alphanumeric(c) THEN << Append(st[1], c), FALSE >>
  ELSE IF ~st[2] THEN << st[1], TRUE >>
  ELSE << Append(st[1], "_"), TRUE >>

\* The closure folded by Id::sanitize; st is the pair (acc, uscore).
SanitizeStep(st, c) ==
  IF is_ascii_alphanumeric(c) THEN << Append(st[1], c), FALSE >>
  ELSE IF st[2] THEN << st[1], TRUE >>
  ELSE << Append(st[1], "_"), TRUE >>

RECURSIVE SanitizeFold(_, _, _)
\* Iterator::fold over input.chars(), from character i on.
SanitizeFold(st0, input, i) ==
  IF i > Len(input) THEN st0
  ELSE Value({ SanitizeFold(SanitizeStep(st, input[i]), input, i + 1) : st \in { st0 } })

\* Id::sanitize
sanitize(input0) ==
  Value({ SanitizeFold(<< << >>, FALSE >>, input, 1)[1] : input \in { input0 } })

\* The hasher of Id::calculate_hash, had the scope not been written.
HashedBytesNoScope(local_file_name, display_name, scope) ==
  HasherWrite(HasherWrite(DefaultHasherNew, as_bytes(local_file_name)),
              as_bytes(display_name))

\* The hasher of Id::calculate_hash, had the display name not been written.
HashedBytesNoName(local_file_name, display_name, scope) ==
  LET h0 == DefaultHasherNew
      h1 == IF scope # None THEN HasherWrite(h0, as_bytes(scope[2])) ELSE h0
  IN  HasherWrite(h1, as_bytes(local_file_name))

\* The hasher of Id::calculate_hash after its writes.
HashedBytes(local_file_name, display_name, scope) ==
  LET h0 == DefaultHasherNew
      h1 == IF scope # None THEN HasherWrite(h0, as_bytes(scope[2])) ELSE h0
      h2 == HasherWrite(h1, as_bytes(local_file_name))
  IN  HasherWrite(h2, as_bytes(display_name))

\* The encoding of the finished hash in Id::calculate_hash.
EncodeHash(hash) == ReplaceDashUnderscore(Base64Encode(to_le_bytes(hash)))

\* Id::calculate_hash
calculate_hash(local_file_name, display_name, scope) ==
  Value({ EncodeHash(HasherFinish(hasher)) :
          hasher \in { HashedBytes(local_file_name, display_name, scope) } })

\* The body of the loop in Id::new, without the test for a leading digit.
DisplayNameStepNoGuard(display_name, segment) ==
  LET prefix == IF display_name = << >> THEN << >>
                ELSE display_name \o << "_" >>
  IN  prefix \o segment

\* The body of the loop over segments in Id::new.
DisplayNameStep(display_name, segment) ==
  IF display_name = << >> /\ segment # << >> /\ is_ascii_digit(segment[1])
  THEN << "_" >> \o segment
  ELSE LET prefix == IF display_name = << >> THEN << >>
                     ELSE display_name \o << "_" >>
       IN  prefix \o segment

RECURSIVE DisplayNameLoop(_, _, _)
\* The loop over segments in Id::new, from segment i on.
DisplayNameLoop(display_name0, segments, i) ==
  IF i > Len(segments) THEN display_name0
  ELSE Value({ DisplayNameLoop(DisplayNameStep(display_name, segments[i]), segments, i + 1) :
               display_name \in { display_name0 } })

\* The sanitized display name of Id::new.
DisplayName(segments) == sanitize(DisplayNameLoop(<< >>, segments, 1))

\* The path Id::new hashes: the relative path without a leading ./
NormalizedLocalFileName(local_file_name) ==
  unwrap_or(strip_prefix(local_file_name, << ".", "/" >>), local_file_name)

\* The match of Id::new, had Test fallen into the arm of Lib and Prod.
SymbolNameDevOnly(target, display_name, hash64) ==
  IF target = "Dev" THEN display_name \o << "_" >> \o hash64
  ELSE << "s", "_" >> \o hash64

\* The match of Id::new, had the arm of Lib and Prod kept the display name too.
SymbolNameKeepName(target, display_name, hash64) ==
  IF target \in { "Dev", "Test" } THEN display_name \o << "_" >> \o hash64
  ELSE << "s", "_" >> \o display_name \o << "_" >> \o hash64

\* The symbol name Id::new gives for a target.
SymbolName(target, display_name, hash64) ==
  IF target \in { "Dev", "Test" } THEN display_name \o << "_" >> \o hash64
  ELSE << "s", "_" >> \o hash64

\* The Id of Id::new, had the local file name used the path as it is hashed.
IdRecordNormalizedPath(source_info, display_name, hash64, symbol_name, scope) ==
  [ display_name |-> source_info.file_name \o << "_" >> \o display_name,
    symbol_name |-> symbol_name,
    local_file_name |-> NormalizedLocalFileName(source_info.rel_path)
                          \o << "_" >> \o symbol_name,
    hash |-> hash64,
    scope |-> scope ]

\* The Id of Id::new, had the local file name held the display name as well.
IdRecordNamedFile(source_info, display_name, hash64, symbol_name, scope) ==
  [ display_name |-> source_info.file_name \o << "_" >> \o display_name,
    symbol_name |-> symbol_name,
    local_file_name |-> source_info.rel_path \o << "_" >> \o display_name
                          \o << "_" >> \o symbol_name,
    hash |-> hash64,
    scope |-> scope ]

\* The Id that Id::new assembles from the values it computed.
IdRecord(source_info, display_name, hash64, symbol_name, scope) ==
  [ display_name |-> source_info.file_name \o << "_" >> \o display_name,
    symbol_name |-> symbol_name,
    local_file_name |-> source_info.rel_path \o << "_" >> \o symbol_name,
    hash |-> hash64,
    scope |-> scope ]

\* Id::new
IdNew(source_info, segments, target, scope) ==
  Value({ Value({ IdRecord(source_info, display_name, hash64,
                           SymbolName(target, display_name, hash64), scope) :
                  hash64 \in { calculate_hash(NormalizedLocalFileName(source_info.rel_path),
                                              display_name, scope) } }) :
          display_name \in { DisplayName(segments) } })

(***************************************************************************)
(* Bounds and input domains                                                 *)
(***************************************************************************)

\* Longest token given to Segment::new.
MaxTokenLen == 3
\* Longest string given to Id::sanitize.
MaxInputLen == 4
\* Longest scope, path and display name given to Id::calculate_hash.
MaxScopeLen == 2
MaxPathLen == 1
MaxNameLen == 1
\* Most segments given to Id::new.
MaxSegments == 2

\* The strings of at most n characters over an alphabet.
Strings(alphabet, n) == UNION { [1..k -> alphabet] : k \in 0..n }

\* Tokens: identifier characters and the capture marker.
Tokens == Strings({ "a", "b", "$" }, MaxTokenLen)

\* Inputs of sanitize: letters of both cases, a digit, the underscore, others.
SanitizeInputs == Strings({ "a", "Z", "7", "_", "-", "$" }, MaxInputLen)

\* Arguments of calculate_hash.
HashScopes == { None } \cup { Some(v) : v \in Strings({ "a", "_" }, MaxScopeLen) }
HashPaths == Strings({ "a", "_" }, MaxPathLen)
HashNames == Strings({ "a", "_" }, MaxNameLen)

\* Source descriptors: the same file with and without a leading ./
AppJs == << "a", "p", "p", ".", "j", "s" >>
Sources == { [ rel_path |-> AppJs, file_name |-> AppJs ],
             [ rel_path |-> << ".", "/" >> \o AppJs, file_name |-> AppJs ] }

\* Segment sequences: short sequences over an empty, a digit-leading, a one-letter
\* and a non-alphanumeric segment, and the two sequences of the tests of Id::new.
SegmentPool == { << >>, << "1" >>, << "s" >>, << "-" >> }
TestSegments == { << << "a" >>, << "b" >>, << "c" >> >>,
                  << << "1" >>, << "b" >>, << "c" >> >> }
SegmentSeqs == Strings(SegmentPool, MaxSegments) \cup TestSegments

\* Scopes given to Id::new.
ScopeText == << "s", "c", "o", "p", "e" >>
Scopes == { None, Some(<< >>), Some(ScopeText) }

(***************************************************************************)
(* State: the arguments and results of the calls made so far.               *)
(***************************************************************************)

VARIABLES
  token, seg, qwik, text, binding, \* Segment::new, is_qwik, Display, binding name
  input, name0, name1,             \* Id::sanitize, and sanitize of its result
  hash_args, hasher0, hash0,       \* Id::calculate_hash: arguments, bytes fed, result
  hash_args1, hasher1, hash1,      \* a second call of Id::calculate_hash
  source_info, segments, scope,    \* arguments of Id::new
  ids                              \* the Id that Id::new returned, per target

segment_vars == << token, seg, qwik, text, binding >>
sanitize_vars == << input, name0, name1 >>
hash_vars == << hash_args, hasher0, hash0, hash_args1, hasher1, hash1 >>
id_vars == << source_info, segments, scope, ids >>
vars == << segment_vars, sanitize_vars, hash_vars, id_vars >>

SegmentIdle == token = None /\ seg = None /\ qwik = None /\ text = None /\ binding = None
SanitizeIdle == input = None /\ name0 = None /\ name1 = None
HashIdle == /\ hash_args = None /\ hasher0 = None /\ hash0 = None
            /\ hash_args1 = None /\ hasher1 = None /\ hash1 = None
IdIdle == source_info = None /\ segments = None /\ scope = None /\ ids = None

(***************************************************************************)
(* Segment                                                                  *)
(***************************************************************************)

InitSegment ==
  /\ token \in Tokens
  /\ seg = None /\ qwik = None /\ text = None /\ binding = None
  /\ SanitizeIdle /\ HashIdle /\ IdIdle

\* Segment::new(token)
Classify ==
  /\ seg = None
  /\ seg' = Some(SegmentNew(token))
  /\ UNCHANGED << token, qwik, text, binding, sanitize_vars, hash_vars, id_vars >>

\* seg.is_qwik()
IsQwik ==
  /\ seg # None /\ qwik = None
  /\ qwik' = Some(is_qwik(seg[2]))
  /\ UNCHANGED << token, seg, text, binding, sanitize_vars, hash_vars, id_vars >>

\* seg.to_string()
Render ==
  /\ seg # None /\ text = None
  /\ text' = Some(SegmentFmt(seg[2]))
  /\ UNCHANGED << token, seg, qwik, binding, sanitize_vars, hash_vars, id_vars >>

\* seg.into_binding_identifier(allocator): the name bound.
Bind ==
  /\ seg # None /\ binding = None
  /\ binding' = Some(into_binding_identifier(seg[2]))
  /\ UNCHANGED << token, seg, qwik, text, sanitize_vars, hash_vars, id_vars >>

NextSegment == Classify \/ IsQwik \/ Render \/ Bind

SpecSegment == InitSegment /\ [][NextSegment]_vars

(***************************************************************************)
(* Id::sanitize                                                             *)
(***************************************************************************)

InitSanitize ==
  /\ input \in SanitizeInputs
  /\ name0 = None /\ name1 = None
  /\ SegmentIdle /\ HashIdle /\ IdIdle

\* Id::sanitize(input)
Sanitize ==
  /\ name0 = None
  /\ name0' = Some(sanitize(input))
  /\ UNCHANGED << input, name1, segment_vars, hash_vars, id_vars >>

\* Id::sanitize of the result of Id::sanitize
SanitizeAgain ==
  /\ name0 # None /\ name1 = None
  /\ name1' = Some(sanitize(name0[2]))
  /\ UNCHANGED << input, name0, segment_vars, hash_vars, id_vars >>

NextSanitize == Sanitize \/ SanitizeAgain

SpecSanitize == InitSanitize /\ [][NextSanitize]_vars

(***************************************************************************)
(* Id::calculate_hash                                                       *)
(***************************************************************************)

HashArgs(local_file_name, display_name, sc) ==
  [ local_file_name |-> local_file_name, display_name |-> display_name, scope |-> sc ]

InitHash ==
  /\ hash_args \in { HashArgs(p, d, sc) : p \in HashPaths, d \in HashNames,
                                          sc \in HashScopes }
  /\ hasher0 = None /\ hash0 = None
  /\ hash_args1 = None /\ hasher1 = None /\ hash1 = None
  /\ SegmentIdle /\ SanitizeIdle /\ IdIdle

\* Id::calculate_hash(local_file_name, display_name, scope); the arguments are
\* bound to their values before the call.
CalculateHash ==
  /\ hash0 = None
  /\ \E a \in { hash_args } :
       /\ hasher0' = HashedBytes(a.local_file_name, a.display_name, a.scope)
       /\ hash0' = Some(calculate_hash(a.local_file_name, a.display_name, a.scope))
  /\ UNCHANGED << hash_args, hash_args1, hasher1, hash1,
                  segment_vars, sanitize_vars, id_vars >>

\* A second call of Id::calculate_hash with the arguments args.
CalculateHashWith(args) ==
  /\ hash0 # None /\ hash1 = None
  /\ \E a \in { args } :
       /\ hash_args1' = a
       /\ hasher1' = HashedBytes(a.local_file_name, a.display_name, a.scope)
       /\ hash1' = Some(calculate_hash(a.local_file_name, a.display_name, a.scope))
  /\ UNCHANGED << hash_args, hasher0, hash0, segment_vars, sanitize_vars, id_vars >>

\* The second call with another scope.
RehashScope ==
  \E sc \in HashScopes \ { hash_args.scope } :
    CalculateHashWith([hash_args EXCEPT !.scope = sc])

\* The second call with another path.
RehashPath ==
  \E p \in HashPaths \ { hash_args.local_file_name } :
    CalculateHashWith([hash_args EXCEPT !.local_file_name = p])

\* The second call with another display name.
RehashName ==
  \E d \in HashNames \ { hash_args.display_name } :
    CalculateHashWith([hash_args EXCEPT !.display_name = d])

NextHash == CalculateHash \/ RehashScope \/ RehashPath \/ RehashName

SpecHash == InitHash /\ [][NextHash]_vars

(***************************************************************************)
(* Id::new                                                                  *)
(***************************************************************************)

Init ==
  /\ source_info \in Sources
  /\ segments \in SegmentSeqs
  /\ scope \in Scopes
  /\ ids = [t \in {} |-> None]
  /\ SegmentIdle /\ SanitizeIdle /\ HashIdle

\* Id::new(source_info, segments, target, scope); the arguments are bound to their
\* values before the call.
New(target) ==
  /\ target \notin DOMAIN ids
  /\ \E src \in { source_info }, segs \in { segments }, sc \in { scope } :
       \E id \in { IdNew(src, segs, target, sc) } :
         ids' = [t \in DOMAIN ids \cup { target } |-> IF t = target THEN id ELSE ids[t]]
  /\ UNCHANGED << source_info, segments, scope,
                  segment_vars, sanitize_vars, hash_vars >>

Next == \E target \in Target : New(target)

Spec == Init /\ [][Next]_vars
(***************************************************************************)
(* Properties of Segment                                                    *)
(***************************************************************************)

\* Whether a token ends with the capture marker.
EndsWithMarker(t) == t # << >> /\ t[Len(t)] = "$"

\* C8: classification gives AnonymousCaptured for the token "$", NamedCaptured of
\* the token without its last character for every other token that ends with '$',
\* and Named of the unchanged token otherwise; is_qwik holds exactly when the
\* token ends with '$'; rendering gives the stored text, empty for
\* AnonymousCaptured.
C8_Classification ==
  /\ seg # None =>
       seg[2] = IF token = << "$" >> THEN AnonymousCaptured
                ELSE IF EndsWithMarker(token)
                     THEN NamedCaptured(SubSeq(token, 1, Len(token) - 1))
                     ELSE Named(token)
  /\ qwik # None => (qwik[2] <=> EndsWithMarker(token))
  /\ text # None =>
       text[2] = IF seg[2] = AnonymousCaptured THEN << >> ELSE seg[2][2]

\* A token with two trailing markers was classified, tested and rendered.
C8_Witness ==
  /\ token = << "a", "$", "$" >>
  /\ seg = Some(NamedCaptured(<< "a", "$" >>))
  /\ qwik = Some(TRUE)
  /\ text = Some(<< "a", "$" >>)

(***************************************************************************)
(* Properties of Id::sanitize                                               *)
(***************************************************************************)

\* The positions of x whose character reaches the output: letters and digits, and
\* the first character of each maximal run of other characters.
KeptPositions(x) ==
  { i \in 1..Len(x) :
      is_ascii_alphanumeric(x[i]) \/ i = 1 \/ is_ascii_alphanumeric(x[i - 1]) }

\* The k-th smallest kept position of x.
KeptPosition(x, k) ==
  CHOOSE i \in KeptPositions(x) : Cardinality({ j \in KeptPositions(x) : j <= i }) = k

\* C3: the output of sanitize holds only ASCII letters, digits and '_', never two
\* consecutive underscores, and is the input with each letter and digit kept in
\* order and each maximal run of other characters replaced by one '_'.
C3_SanitizeCollapsesRuns ==
  name0 # None =>
    LET y == name0[2]
    IN  /\ \A i \in 1..Len(y) : is_ascii_alphanumeric(y[i]) \/ y[i] = "_"
        /\ \A i \in 1..(Len(y) - 1) : ~(y[i] = "_" /\ y[i + 1] = "_")
        /\ Len(y) = Cardinality(KeptPositions(input))
        /\ \A k \in 1..Len(y) :
             y[k] = IF is_ascii_alphanumeric(input[KeptPosition(input, k)])
                    THEN input[KeptPosition(input, k)]
                    ELSE "_"

\* A run of three disallowed characters, one of them '_', between two letters.
C3_Witness ==
  /\ input = << "a", "-", "_", "$" >>
  /\ name0 = Some(<< "a", "_" >>)

\* C4: sanitize applied to its own result gives that result again.
C4_SanitizeIdempotent == name1 # None => name1 = name0

\* sanitize was applied twice to a string that it changes.
C4_Witness ==
  /\ input = << "-", "-", "Z", "$" >>
  /\ name0 = Some(<< "_", "Z", "_" >>)
  /\ name1 # None

(***************************************************************************)
(* Properties of Id::calculate_hash                                         *)
(***************************************************************************)

\* The second call changed the scope between None and Some of a non-empty string.
ScopeAddedOrRemoved ==
  /\ hash1 # None
  /\ hash_args1 = [hash_args EXCEPT !.scope = hash_args1.scope]
  /\ \/ hash_args.scope = None /\ hash_args1.scope # None /\ hash_args1.scope[2] # << >>
     \/ hash_args1.scope = None /\ hash_args.scope # None /\ hash_args.scope[2] # << >>

\* C6: for a fixed path and display name, the hash without a scope and the hash
\* with a non-empty scope differ, and so do the byte streams fed to the hasher.
C6_ScopeSensitivity ==
  ScopeAddedOrRemoved => (hash0 # hash1 /\ hasher0 # hasher1)

\* The hash was computed without a scope and again with a non-empty one.
C6_Witness ==
  /\ ScopeAddedOrRemoved
  /\ hash_args.scope = None
  /\ hash_args1.scope = Some(<< "a", "_" >>)
  /\ hash_args.local_file_name = << "a" >>
  /\ hash_args.display_name = << "_" >>

\* The pair of scopes that feed the hasher no bytes.
EmptyScopes == { None, Some(<< >>) }

\* C7, as claimed: two calls that differ in exactly one of scope, path and display
\* name feed the hasher different byte streams.
C7_Original == hash1 # None => hasher0 # hasher1

\* C7, amended: two calls that differ in exactly one of scope, path and display
\* name feed the hasher different byte streams, except when the change is between
\* no scope and the empty scope, which feed it the same stream.
C7_Amended ==
  hash1 # None =>
    (hasher0 = hasher1 <=> (/\ hash_args.scope \in EmptyScopes
                            /\ hash_args1.scope \in EmptyScopes
                            /\ hash_args.scope # hash_args1.scope))

\* The second call changed the scope from no scope to the empty scope: the same
\* stream and the same hash.
C7_Witness ==
  /\ hash1 # None
  /\ hash_args.scope = None
  /\ hash_args1.scope = Some(<< >>)
  /\ hasher0 = hasher1
  /\ hash0 = hash1

(***************************************************************************)
(* Properties of Id::new                                                    *)
(***************************************************************************)

\* The part of an Id's display name after the file name and its underscore.
NamePart(id) ==
  SubSeq(id.display_name, Len(source_info.file_name) + 2, Len(id.display_name))

DevOrTest == { "Dev", "Test" }
LibOrProd == { "Lib", "Prod" }

\* C1: under Dev or Test the symbol name is the sanitized display name (the display
\* name without the file-name prefix), '_' and the hash; under Lib or Prod it is
\* 's_' and the hash.
C1_SymbolNameByTarget ==
  \A t \in DOMAIN ids :
    /\ t \in DevOrTest =>
         ids[t].symbol_name = NamePart(ids[t]) \o << "_" >> \o ids[t].hash
    /\ t \in LibOrProd =>
         ids[t].symbol_name = << "s", "_" >> \o ids[t].hash
    /\ NamePart(ids[t]) = DisplayName(segments)

\* Id::new was called under all four targets for a two-segment sequence.
C1_Witness ==
  /\ DOMAIN ids = Target
  /\ segments = << << "s" >>, << "-" >> >>
  /\ NamePart(ids["Test"]) = << "s", "_" >>

\* C2, as claimed: when the sanitized display name is not empty, the symbol name
\* under Dev or Test differs from the symbol name under Lib or Prod.
C2_Original ==
  \A t1 \in DOMAIN ids \cap DevOrTest, t2 \in DOMAIN ids \cap LibOrProd :
    NamePart(ids[t1]) # << >> => ids[t1].symbol_name # ids[t2].symbol_name

\* C2, amended: the symbol name under Dev or Test equals the symbol name under Lib
\* or Prod exactly when the sanitized display name is the one letter s.
C2_Amended ==
  \A t1 \in DOMAIN ids \cap DevOrTest, t2 \in DOMAIN ids \cap LibOrProd :
    (ids[t1].symbol_name = ids[t2].symbol_name) <=> (NamePart(ids[t1]) = << "s" >>)

\* Id::new was called under Dev and under Prod for the one segment s.
C2_Witness ==
  /\ { "Dev", "Prod" } \subseteq DOMAIN ids
  /\ segments = << << "s" >> >>
  /\ ids["Dev"].symbol_name = ids["Prod"].symbol_name

\* Whether segment j is the first segment that is not empty.
FirstNonEmpty(j) ==
  /\ segments[j] # << >>
  /\ \A i \in 1..(j - 1) : segments[i] = << >>

\* C5: the sanitized display name, and so the symbol name under Dev or Test, never
\* begins with a digit; when the first non-empty segment begins with a digit, the
\* display name begins with '_' and that digit.
C5_DigitGuard ==
  \A t \in DOMAIN ids :
    /\ NamePart(ids[t]) # << >> => ~is_ascii_digit(NamePart(ids[t])[1])
    /\ t \in DevOrTest => ~is_ascii_digit(ids[t].symbol_name[1])
    /\ \A j \in 1..Len(segments) :
         (FirstNonEmpty(j) /\ is_ascii_digit(segments[j][1])) =>
           /\ Len(NamePart(ids[t])) >= 2
           /\ NamePart(ids[t])[1] = "_"
           /\ NamePart(ids[t])[2] = segments[j][1]

\* Id::new was called under Dev for an empty segment followed by a digit.
C5_Witness ==
  /\ "Dev" \in DOMAIN ids
  /\ segments = << << >>, << "1" >> >>
  /\ NamePart(ids["Dev"]) = << "_", "1" >>

\* C9: the local file name is the relative path as supplied (a leading ./ kept),
\* '_' and the symbol name; the display name is the file name, '_' and the
\* sanitized display name, the same under every target; the hash is that of the
\* path without the leading ./
C9_FileAndDisplayName ==
  /\ \A t \in DOMAIN ids :
       /\ ids[t].local_file_name = source_info.rel_path \o << "_" >> \o ids[t].symbol_name
       /\ ids[t].display_name = source_info.file_name \o << "_" >> \o DisplayName(segments)
  /\ \A t1, t2 \in DOMAIN ids : ids[t1].display_name = ids[t2].display_name
  /\ (DOMAIN ids = Target /\ source_info.rel_path # AppJs) =>
       ids["Lib"].hash = calculate_hash(AppJs, DisplayName(segments), scope)

\* Id::new was called under all four targets for a path with a leading ./
C9_Witness ==
  /\ DOMAIN ids = Target
  /\ source_info.rel_path = << ".", "/" >> \o AppJs
  /\ segments = << << "1" >>, << "b" >>, << "c" >> >>
  /\ SubSeq(ids["Prod"].local_file_name, 1, 11)
       = << ".", "/", "a", "p", "p", ".", "j", "s", "_", "s", "_" >>

\* Scenario A: app.js, the segments a, b, c, no scope, and a call under Dev.
ScenarioA ==
  /\ source_info = [ rel_path |-> AppJs, file_name |-> AppJs ]
  /\ segments = << << "a" >>, << "b" >>, << "c" >> >>
  /\ scope = None
  /\ "Dev" \in DOMAIN ids

\* The text a_b_c and the hash that the test of Id::new expects for scenario A.
Name_a_b_c == << "a", "_", "b", "_", "c" >>
TestHashA == << "t", "Z", "u", "i", "v", "X", "M", "g", "s", "2", "w" >>

\* What scenario A gives apart from the local file name: the display name
\* app.js_a_b_c and the symbol name a_b_c_ followed by the hash of (app.js,
\* a_b_c, no scope).
ScenarioANames ==
  /\ ids["Dev"].display_name = AppJs \o << "_" >> \o Name_a_b_c
  /\ ids["Dev"].hash = calculate_hash(AppJs, Name_a_b_c, None)
  /\ ids["Dev"].hash = TestHashA
  /\ ids["Dev"].symbol_name = Name_a_b_c \o << "_" >> \o ids["Dev"].hash

\* C10, as claimed: in scenario A the local file name is app.js_a_b_c_ followed by
\* the whole symbol name.
C10_Original ==
  ScenarioA =>
    /\ ScenarioANames
    /\ ids["Dev"].local_file_name
         = AppJs \o << "_" >> \o Name_a_b_c \o << "_" >> \o ids["Dev"].symbol_name

\* C10, amended: in scenario A the local file name is app.js_ followed by the
\* whole symbol name, that is app.js_a_b_c_ followed by the hash.
C10_Amended ==
  ScenarioA =>
    /\ ScenarioANames
    /\ ids["Dev"].local_file_name = AppJs \o << "_" >> \o ids["Dev"].symbol_name
    /\ ids["Dev"].local_file_name
         = AppJs \o << "_" >> \o Name_a_b_c \o << "_" >> \o ids["Dev"].hash

\* Scenario A was run.
C10_Witness ==
  /\ ScenarioA
  /\ ids["Dev"].symbol_name = Name_a_b_c \o << "_" >> \o TestHashA
=============================================================================
